---- MODULE Spec2Model ----
(***************************************************************************)
(* Model of backend/main.py: the /analyze handler (analyze_stress) with    *)
(* its data fetch and synthetic fallback, the pickle decomposition cache   *)
(* (perform_ceemdan_cached), baseline calibration, the per-minute          *)
(* classifier and the response; the two module-level random generators     *)
(* that set_deterministic reseeds; and, for the cache file, the            *)
(* byte-level interleaving of a reader and a writer in two worker          *)
(* processes.                                                              *)
(*                                                                         *)
(* The numerics behind a band power (CEEMDAN, Hilbert phase, Welch PSD,    *)
(* trapezoid integration) are the environment: every call of               *)
(* calculate_power yields a non-negative power drawn from a small set.     *)
(***************************************************************************)
EXTENDS Integers, Sequences, FiniteSets

\* ------------------------------------------------------------- bounds
\* Largest requested minute count that is enumerated.
MaxMinutes == 2
\* Size of the hash codomain (Python's hash() has 2^64 values; signals are
\* unboundedly many, so it is many-to-one).
HashRange == 7
\* random.random() is modelled with this many equally spaced values in [0,1).
Resolution == 8
\* Number of chunks in which a cache entry is read and written: the first
\* holds the stored hash, the last ends the pickle.
EntryChunks == 3

\* ------------------------------------------------- program constants
segment_length == 60
baseline_duration == 180
random_seed == 42

\* ------------------------------------------------------------ inputs
\* requested minute counts: the model also sends the non-positive ones, which
\* AnalysisRequest (minutes: int) accepts.
MinuteCounts == (-1) .. MaxMinutes
Urls == {"", "dummy-thingspeak", "channel"}
\* Lengths of the series a channel may deliver.
Lens == {100, 200, 260, 330}
\* Band powers of the baseline window and of a segment (non-negative: the
\* integral of a PSD over increasing frequencies).
LfPowers == {0, 1, 3}
HfPowers == {0, 2}
SclPowers == {0, 1}

\* --------------------------------------------------- float arithmetic
\* A float ratio is <<numerator, denominator>> in lowest terms; <<0, 0>> is
\* not-a-number.
NaN == <<0, 0>>
Zero == <<0, 1>>

RECURSIVE GCD(_, _)
GCD(a, b) == IF b = 0 THEN a ELSE GCD(b, a % b)

IsNaN(x) == x[2] = 0

\* a / b for b # 0 (floats a, b >= 0)
Div(a, b) == LET g == GCD(a, b) IN <<a \div g, b \div g>>

\* x > y on floats: every comparison with not-a-number is false.
GT(x, y) == /\ ~IsNaN(x)
            /\ ~IsNaN(y)
            /\ x[1] * y[2] > y[1] * x[2]

\* round(a + (b - a) * u / Resolution, 2), in hundredths
Uniform(a, b, u) ==
    LET num == (b - a) * 100 * u
    IN  a * 100 + (2 * num + Resolution) \div (2 * Resolution)

\* The pos-th output of random.random() after random.seed(seed), as a number
\* of Resolution-ths: a fixed sequence per seed.
RandomAt(seed, pos) == (seed * (pos + 1) + 3 * pos * pos) % Resolution

Min(a, b) == IF a < b THEN a ELSE b

\* ---------------------------------------------------- set_deterministic
\* At import both generators are seeded from OS entropy: some seed that is
\* not the program's.
Unseeded == [seed |-> 7, pos |-> 0]

\* set_deterministic(seed): np.random.seed(seed); random.seed(seed). A seeded
\* generator is [seed, pos]: pos outputs have been taken since the seeding.
SetDeterministic(seed) == [seed |-> seed, pos |-> 0]

Advance(rng, n) == [rng EXCEPT !.pos = @ + n]

\* ------------------------------------------------------------ signals
\* A data frame is identified by where it came from (src, key) and its
\* length; a signal is one column of it.
NoData == [src |-> "none", key |-> 0, len |-> 0]

IsNone(df) == df.src = "none"

\* generate_dummy_data(minutes), for minutes >= 0: a function of minutes only,
\* since it reseeds before drawing.
DummyLen(minutes) == (180 + minutes) * 60
GenerateDummyData(minutes) ==
    [src |-> "dummy", key |-> minutes, len |-> DummyLen(minutes)]

\* The variates generate_dummy_data takes from np.random.
DummyDraws(minutes) == 2 * minutes + 2 * (2 * minutes) + 2 * DummyLen(minutes)

\* What the data source answers to requests.get. n1 and n2 count the feeds
\* that carry field1 and field2; bad: one of those values is no number.
Resp(transport, status, body, n1, n2, bad, key) ==
    [transport |-> transport, status |-> status, body |-> body,
     n1 |-> n1, n2 |-> n2, bad |-> bad, key |-> key]

Responses ==
    {Resp("timeout", 0, "", 0, 0, FALSE, 0),
     Resp("ok", 500, "", 0, 0, FALSE, 0),
     Resp("ok", 200, "not_json", 0, 0, FALSE, 0),
     Resp("ok", 200, "no_feeds", 0, 0, FALSE, 0),
     Resp("ok", 200, "feeds", 0, 0, FALSE, 0),
     Resp("ok", 200, "feeds", 260, 0, FALSE, 1),
     Resp("ok", 200, "feeds", 260, 260, TRUE, 1),
     Resp("ok", 200, "feeds", 330, 260, FALSE, 1),
     Resp("ok", 200, "feeds", 260, 260, FALSE, 0)}
    \cup {Resp("ok", 200, "feeds", n, n, FALSE, 1) : n \in Lens}

\* fetch_thingspeak_data(url), given the answer r of the data source
\* (faulty variant: no try / except, a failure of the source propagates)
FetchRaisesMut(url, r) ==
    IF r.transport = "ok" /\ r.status < 400 /\ r.body = "feeds" /\ ~r.bad
    THEN [src |-> "feed", key |-> r.key, len |-> Min(r.n1, r.n2)]
    ELSE [src |-> "raise", key |-> 0, len |-> 0]
fetch_thingspeak_data(url, r) ==
    IF url = "dummy-thingspeak" THEN NoData
    ELSE IF r.transport # "ok" THEN NoData
    ELSE IF r.status >= 400 THEN NoData
    ELSE IF r.body = "not_json" THEN NoData
    ELSE IF r.body # "feeds" THEN NoData
    ELSE IF r.bad THEN NoData
    ELSE [src |-> "feed", key |-> r.key, len |-> Min(r.n1, r.n2)]

\* The history name of what the data source did.
SourceKind(url, r) ==
    IF url = "" THEN "no_url"
    ELSE IF url = "dummy-thingspeak" THEN "local_url"
    ELSE IF r.transport # "ok" THEN "timeout"
    ELSE IF r.status >= 400 THEN "http_error"
    ELSE IF r.body = "not_json" THEN "not_json"
    ELSE IF r.body # "feeds" THEN "no_feeds"
    ELSE IF r.bad THEN "bad_value"
    ELSE IF r.n1 = 0 /\ r.n2 = 0 THEN "empty"
    ELSE IF r.n1 = 0 \/ r.n2 = 0 THEN "missing_field"
    ELSE "ok"

SourceFailures ==
    {"timeout", "http_error", "not_json", "no_feeds", "bad_value", "empty",
     "missing_field"}

\* ------------------------------------------------- decomposition cache
\* hash(signal.tobytes()): the bytes of a column are those of its data frame
\* and column name.
SignalCode(col, df) == (IF col = "IBI" THEN 0 ELSE 1) + 2 * (df.len + df.key)
Hash(col, df) == SignalCode(col, df) % HashRange

\* The number of IMFs CEEMDAN extracts: a constant series (key 0 of a feed)
\* has no oscillation to sift.
NumImfs(df) == IF df.src = "feed" /\ df.key = 0 THEN 1 ELSE 4

\* np.round(ceemdan(signal), 6): the ComponentSet of a signal (CEEMDAN is
\* taken to be a function of the signal, as the code's reseeding intends)
Ceemdan(df) == [of |-> df, n |-> NumImfs(df)]

NoImfs == [of |-> NoData, n |-> 0]
NoFile == [state |-> "absent", hash |-> 0, imfs |-> NoImfs]

\* perform_ceemdan_cached(signal, cache_file): the ComponentSet returned, the
\* cache file afterwards, and whether set_deterministic was called.
perform_ceemdan_cached(col, df, file) ==
    IF file.state = "entry" /\ file.hash = Hash(col, df)
    THEN [imfs |-> file.imfs, file |-> file, seeded |-> FALSE]
    ELSE [imfs |-> Ceemdan(df),
          file |-> [state |-> "entry", hash |-> Hash(col, df), imfs |-> Ceemdan(df)],
          seeded |-> TRUE]

\* ---------------------------------------------------------- classifier
\* len(ibi_signal) // segment_length - baseline_duration // segment_length,
\* capped by the request
\* (faulty variant: the baseline is subtracted in samples, not in segments)
AnalysisMinutesMut(minutes, len) ==
    Min(minutes, len \div segment_length - baseline_duration)
AnalysisMinutes(minutes, len) ==
    Min(minutes, len \div segment_length - baseline_duration \div segment_length)

\* ibi_lf_base / ibi_hf_base if ibi_hf_base != 0 else np.nan
\* (faulty variant: 0 in place of not-a-number)
IbiBaselineZeroMut(lf, hf) == IF hf # 0 THEN Div(lf, hf) ELSE Zero
IbiBaseline(lf, hf) == IF hf # 0 THEN Div(lf, hf) ELSE NaN

\* lf / hf if hf != 0 else np.nan
\* (faulty variant: the unguarded division, which overflows to a large value)
IbiRatioInfMut(lf, hf) == IF hf # 0 THEN Div(lf, hf) ELSE <<1 + lf, 1>>
IbiRatio(lf, hf) == IF hf # 0 THEN Div(lf, hf) ELSE NaN

\* float(ibi_ratio) if not np.isnan(ibi_ratio) else 0.0
ReportedRatio(ratio) == IF IsNaN(ratio) THEN Zero ELSE ratio

\* The if / elif / else on the two flags: the label and the oxygen range.
\* (faulty variant: the elif tests the ibi flag only)
ClassifyMut(ibi_flag, scl_flag) ==
    IF ibi_flag /\ scl_flag
    THEN [stress |-> "High Stress", num |-> 2, lo |-> 94, hi |-> 96]
    ELSE IF ibi_flag
    THEN [stress |-> "Mild Stress", num |-> 1, lo |-> 96, hi |-> 98]
    ELSE [stress |-> "No Stress", num |-> 0, lo |-> 98, hi |-> 100]
Classify(ibi_flag, scl_flag) ==
    IF ibi_flag /\ scl_flag
    THEN [stress |-> "High Stress", num |-> 2, lo |-> 94, hi |-> 96]
    ELSE IF ibi_flag \/ scl_flag
    THEN [stress |-> "Mild Stress", num |-> 1, lo |-> 96, hi |-> 98]
    ELSE [stress |-> "No Stress", num |-> 0, lo |-> 98, hi |-> 100]

\* round(random.uniform(lo, hi), 2) on the generator rng, in hundredths
\* (faulty variant: the upper end of the range is two too high)
OxygenWideMut(c, rng) == Uniform(c.lo, c.hi + 2, RandomAt(rng.seed, rng.pos))
Oxygen(c, rng) == Uniform(c.lo, c.hi, RandomAt(rng.seed, rng.pos))

\* The set_deterministic(42) between calibration and the loop
\* (faulty variant: the call is left out)
KeepGeneratorMut(rng) == rng
SeedBeforeLoop(rng) == SetDeterministic(42)

\* base = slice(0, baseline_duration) of a series of len samples
BaseSlice(len) == [from |-> 0, to |-> Min(baseline_duration, len)]

\* start = baseline_duration + m * segment_length
\* (faulty variant: the baseline offset is left out)
SegmentStartMut(m) == m * segment_length
SegmentStart(m) == baseline_duration + m * segment_length

\* minute = m + 1
MinuteNumber(m) == m + 1

\* One MinuteResult: the body of the loop for index m on the powers of its
\* segment (start and end are the segment's sample range).
MinuteResult(m, lf, hf, scl_lf, ibi_baseline, scl_baseline, rng) ==
    LET start == SegmentStart(m)
        ibi_ratio == IbiRatio(lf, hf)
        ibi_flag == GT(ibi_ratio, ibi_baseline)
        scl_flag == scl_lf > scl_baseline
        c == Classify(ibi_flag, scl_flag)
    IN  [minute |-> MinuteNumber(m),
         stress_level |-> c.stress,
         numeric_label |-> c.num,
         oxygen_level |-> Oxygen(c, rng),
         ibi_lf_hf_ratio |-> ReportedRatio(ibi_ratio),
         scl_lf_power |-> scl_lf,
         start |-> start,
         end |-> start + segment_length]

\* sum(1 for r in results if r.numeric_label > 0)
RECURSIVE StressedMinutes(_)
StressedMinutes(rs) ==
    IF rs = <<>> THEN 0
    ELSE (IF rs[1].numeric_label > 0 THEN 1 ELSE 0) + StressedMinutes(Tail(rs))

OxygenLevels(rs) == [i \in 1 .. Len(rs) |-> rs[i].oxygen_level]

\* ------------------------------------------------------------- state
VARIABLES
    \* the process: the two cache files and the two global generators
    ibi_cache, scl_cache, py_random, np_random,
    \* the request being handled and where its handler stands
    pc, request, df, ibi_imfs, scl_imfs, base, analysis_minutes, m, results,
    response,
    \* history: what the data source did, the powers of the last segment, the
    \* number of set_deterministic calls of this run
    source, last, seeds,
    \* one cache file shared by worker processes, chunk by chunk, and each
    \* worker's place in perform_ceemdan_cached
    cache_file, wpc, wsig, wpos, wbuf

fileVars == <<cache_file, wpc, wsig, wpos, wbuf>>
procVars == <<ibi_cache, scl_cache, py_random, np_random>>
runVars == <<pc, request, df, ibi_imfs, scl_imfs, base, analysis_minutes, m,
             results, response>>
histVars == <<source, last, seeds>>
vars == <<procVars, runVars, histVars, fileVars>>

\* Worker processes that share the cache directory, and the signals they
\* decompose: series of one length and component count, told apart by key.
Workers == {1, 2}
CacheKeys == {1, 2}
Feed(k) == [src |-> "feed", key |-> k, len |-> 260]

\* The cache file as the operating system keeps it: whether it exists, its
\* length in chunks, and per chunk the key of the entry whose bytes it holds
\* (0: zero bytes, a hole left by a write past the end).
NoCacheFile == [exists |-> FALSE, len |-> 0, chunks |-> [i \in 1 .. EntryChunks |-> 0]]

\* open(cache_file, 'wb'): the file exists and is empty
Truncated == [exists |-> TRUE, len |-> 0, chunks |-> [i \in 1 .. EntryChunks |-> 0]]

\* A write of one chunk of the entry of key k at chunk offset pos
WriteAt(file, pos, k) ==
    [file EXCEPT !.chunks[pos + 1] = k, !.len = IF @ > pos + 1 THEN @ ELSE pos + 1]

\* cached_data.get('hash') == signal_hash, for a loaded buffer
HashMatches(buf, k) == Hash("IBI", Feed(buf[1])) = Hash("IBI", Feed(k))

NoRequest == [minutes |-> 0, url |-> ""]
NoBase ==
    [set |-> FALSE, ibi_hf_base |-> 0, ibi_baseline |-> NaN, scl_baseline |-> 0,
     from |-> 0, to |-> 0]
NoLast == [lf |-> 0, hf |-> 0, scl |-> 0]
NoResponse ==
    [status |-> 0, detail |-> "", stress_score |-> <<0, 0>>, total_minutes |-> 0,
     stressed_minutes |-> 0, oxygen_levels |-> <<>>]

Failure(detail) == [NoResponse EXCEPT !.status = 500, !.detail = detail]

Init ==
    /\ ibi_cache = NoFile
    /\ scl_cache = NoFile
    /\ py_random = Unseeded
    /\ np_random = Unseeded
    /\ pc = "idle"
    /\ request = NoRequest
    /\ df = NoData
    /\ ibi_imfs = NoImfs
    /\ scl_imfs = NoImfs
    /\ base = NoBase
    /\ analysis_minutes = 0
    /\ m = 0
    /\ results = <<>>
    /\ response = NoResponse
    /\ source = "none"
    /\ last = NoLast
    /\ seeds = 0
    /\ cache_file = NoCacheFile
    /\ wpc = [w \in Workers |-> "idle"]
    /\ wsig = [w \in Workers |-> 0]
    /\ wpos = [w \in Workers |-> 0]
    /\ wbuf = [w \in Workers |-> <<>>]

\* The handlers are coroutines that never await: the process serves one
\* request at a time, start to finish.
Idle == pc = "idle"

\* POST /analyze arrives: a new run starts (use_dummy_data is never read).
Receive(minutes, url) ==
    /\ Idle
    /\ pc' = "get_data"
    /\ request' = [minutes |-> minutes, url |-> url]
    /\ UNCHANGED <<procVars, df, ibi_imfs, scl_imfs, base, analysis_minutes, m,
                   results, response, histVars>>
    /\ UNCHANGED fileVars

\* The data of the run: the fetch when a locator is given, else or on None or
\* an empty frame the synthetic series.
GetData(r) ==
    /\ pc = "get_data"
    /\ LET fetched == IF request.url # ""
                      THEN fetch_thingspeak_data(request.url, r)
                      ELSE NoData
       IN  /\ source' = SourceKind(request.url, r)
           /\ IF fetched.src = "raise"
              THEN /\ pc' = "failed"
                   /\ response' = Failure("fetch")
                   /\ UNCHANGED <<df, py_random, np_random, seeds>>
              ELSE IF IsNone(fetched) \/ fetched.len = 0
              THEN /\ py_random' = SetDeterministic(42)
                   /\ seeds' = seeds + 1
                   /\ IF request.minutes < 0
                      THEN /\ pc' = "failed"
                           /\ response' = Failure("generate_dummy_data")
                           /\ np_random' = SetDeterministic(42)
                           /\ df' = df
                      ELSE /\ pc' = "decompose"
                           /\ df' = GenerateDummyData(request.minutes)
                           /\ np_random' = Advance(SetDeterministic(42),
                                                   DummyDraws(request.minutes))
                           /\ response' = response
              ELSE /\ pc' = "decompose"
                   /\ df' = fetched
                   /\ UNCHANGED <<py_random, np_random, seeds, response>>
    /\ UNCHANGED <<ibi_cache, scl_cache, request, ibi_imfs, scl_imfs, base,
                   analysis_minutes, m, results, last>>
    /\ UNCHANGED fileVars

\* Both signals are decomposed through their cache files, then the
\* instantaneous frequencies IMF_1..IMF_3 (IBI) and IMF_2, IMF_3 (EDA) are
\* looked up: a KeyError when a ComponentSet has fewer than three components.
Decompose ==
    /\ pc = "decompose"
    /\ LET a == perform_ceemdan_cached("IBI", df, ibi_cache)
           b == perform_ceemdan_cached("EDA", df, scl_cache)
           n == (IF a.seeded THEN 1 ELSE 0) + (IF b.seeded THEN 1 ELSE 0)
       IN  /\ ibi_cache' = a.file
           /\ scl_cache' = b.file
           /\ ibi_imfs' = a.imfs
           /\ scl_imfs' = b.imfs
           /\ seeds' = seeds + n
           /\ py_random' = IF n > 0 THEN SetDeterministic(random_seed) ELSE py_random
           /\ np_random' = IF n > 0 THEN SetDeterministic(random_seed) ELSE np_random
           /\ IF a.imfs.n < 3 \/ b.imfs.n < 3
              THEN /\ pc' = "failed"
                   /\ response' = Failure("KeyError")
              ELSE /\ pc' = "calibrate"
                   /\ response' = response
    /\ UNCHANGED <<request, df, base, analysis_minutes, m, results, source, last>>
    /\ UNCHANGED fileVars

\* The baseline thresholds from the powers of samples [0, 180), then the
\* reseeding and the number of segments to analyse.
Calibrate(ibi_lf_base, ibi_hf_base, scl_lf_base) ==
    /\ pc = "calibrate"
    /\ pc' = "segments"
    /\ base' = [set |-> TRUE,
                ibi_hf_base |-> ibi_hf_base,
                ibi_baseline |-> IbiBaseline(ibi_lf_base, ibi_hf_base),
                scl_baseline |-> scl_lf_base,
                from |-> BaseSlice(df.len).from,
                to |-> BaseSlice(df.len).to]
    /\ py_random' = SeedBeforeLoop(py_random)
    /\ np_random' = SeedBeforeLoop(np_random)
    /\ seeds' = seeds + 1
    /\ analysis_minutes' = AnalysisMinutes(request.minutes, df.len)
    /\ m' = 0
    /\ results' = <<>>
    /\ UNCHANGED <<ibi_cache, scl_cache, request, df, ibi_imfs, scl_imfs, response,
                   source, last>>
    /\ UNCHANGED fileVars

\* One pass of the loop body, for index m.
Segment(lf, hf, scl_lf) ==
    /\ pc = "segments"
    /\ m < analysis_minutes
    /\ LET end == SegmentStart(m) + segment_length
       IN  IF end > df.len
           THEN /\ pc' = "loop_exit"
                /\ UNCHANGED <<m, results, py_random, last>>
           ELSE /\ pc' = pc
                /\ results' = Append(results,
                                     MinuteResult(m, lf, hf, scl_lf, base.ibi_baseline,
                                                  base.scl_baseline, py_random))
                /\ py_random' = Advance(py_random, 1)
                /\ m' = m + 1
                /\ last' = [lf |-> lf, hf |-> hf, scl |-> scl_lf]
    /\ UNCHANGED <<ibi_cache, scl_cache, np_random, request, df, ibi_imfs, scl_imfs,
                   base, analysis_minutes, response, source, seeds>>
    /\ UNCHANGED fileVars

\* The loop is over: the score and the response.
Respond ==
    /\ \/ pc = "loop_exit"
       \/ pc = "segments" /\ m >= analysis_minutes
    /\ pc' = "done"
    /\ response' = [status |-> 200,
                    detail |-> "",
                    stress_score |-> <<StressedMinutes(results), Len(results)>>,
                    total_minutes |-> Len(results),
                    stressed_minutes |-> StressedMinutes(results),
                    oxygen_levels |-> OxygenLevels(results)]
    /\ last' = NoLast
    /\ UNCHANGED <<procVars, request, df, ibi_imfs, scl_imfs, base, analysis_minutes,
                   m, results, source, seeds>>
    /\ UNCHANGED fileVars

\* The response (or the HTTPException) has gone out: the run's objects are
\* dropped, the process state stays.
Return ==
    /\ pc \in {"done", "failed"}
    /\ pc' = "idle"
    /\ request' = NoRequest
    /\ df' = NoData
    /\ ibi_imfs' = NoImfs
    /\ scl_imfs' = NoImfs
    /\ base' = NoBase
    /\ analysis_minutes' = 0
    /\ m' = 0
    /\ results' = <<>>
    /\ response' = NoResponse
    /\ source' = "none"
    /\ last' = NoLast
    /\ seeds' = 0
    /\ UNCHANGED procVars
    /\ UNCHANGED fileVars

\* GET /health
Health ==
    /\ Idle
    /\ UNCHANGED vars

\* GET /dummy-thingspeak: reseeds both generators and takes two normal
\* variates per point from np.random.
DummyThingspeak ==
    /\ Idle
    /\ py_random' = SetDeterministic(42)
    /\ np_random' = Advance(SetDeterministic(42), 2 * 600)
    /\ UNCHANGED <<ibi_cache, scl_cache, runVars, histVars>>
    /\ UNCHANGED fileVars

\* Between two runs a cache file is deleted or damaged from outside the
\* process (os.path.exists is false, or pickle.load raises).
DamageCache ==
    /\ Idle
    /\ \E st \in {"absent", "corrupt"} :
          \/ /\ ibi_cache.state = "entry"
             /\ ibi_cache' = [NoFile EXCEPT !.state = st]
             /\ UNCHANGED scl_cache
          \/ /\ scl_cache.state = "entry"
             /\ scl_cache' = [NoFile EXCEPT !.state = st]
             /\ UNCHANGED ibi_cache
    /\ UNCHANGED <<py_random, np_random, runVars, histVars>>
    /\ UNCHANGED fileVars

Next ==
    \/ \E minutes \in MinuteCounts, url \in Urls : Receive(minutes, url)
    \/ \E r \in Responses : GetData(r)
    \/ Decompose
    \/ \E lf \in LfPowers, hf \in HfPowers, scl_lf \in SclPowers : Calibrate(lf, hf, scl_lf)
    \/ \E lf \in LfPowers, hf \in HfPowers, scl_lf \in SclPowers : Segment(lf, hf, scl_lf)
    \/ Respond
    \/ Return
    \/ Health
    \/ DummyThingspeak
    \/ DamageCache

Spec == Init /\ [][Next]_vars

\* --------------------------------------- the cache file, chunk by chunk
\* perform_ceemdan_cached in several worker processes on one cache file. A
\* worker's reads and writes are separate system calls; those of other
\* workers fall between them.
mainVars == <<procVars, runVars, histVars>>

\* A worker is handed a signal.
CallDecompose(w, k) ==
    /\ wpc[w] = "idle"
    /\ wpc' = [wpc EXCEPT ![w] = "check"]
    /\ wsig' = [wsig EXCEPT ![w] = k]
    /\ UNCHANGED <<cache_file, wpos, wbuf, mainVars>>

\* os.path.exists(cache_file), then open(cache_file, 'rb')
CheckExists(w) ==
    /\ wpc[w] = "check"
    /\ wpc' = [wpc EXCEPT ![w] = IF cache_file.exists THEN "read" ELSE "compute"]
    /\ wpos' = [wpos EXCEPT ![w] = 0]
    /\ wbuf' = [wbuf EXCEPT ![w] = <<>>]
    /\ UNCHANGED <<cache_file, wsig, mainVars>>

\* pickle.load reads the next chunk at the worker's own offset. The end of
\* the file before the end of the pickle, zero bytes where the pickle starts
\* or where it must end, raise, and the bare except passes; a complete load
\* is accepted when the stored hash is the signal's.
ReadChunk(w) ==
    /\ wpc[w] = "read"
    /\ LET pos == wpos[w]
           c == cache_file.chunks[pos + 1]
           buf == Append(wbuf[w], c)
       IN  IF pos >= cache_file.len \/ (c = 0 /\ pos + 1 \in {1, EntryChunks})
           THEN /\ wpc' = [wpc EXCEPT ![w] = "compute"]
                /\ UNCHANGED <<wpos, wbuf>>
           ELSE /\ wbuf' = [wbuf EXCEPT ![w] = buf]
                /\ wpos' = [wpos EXCEPT ![w] = pos + 1]
                /\ wpc' = [wpc EXCEPT ![w] =
                              IF Len(buf) < EntryChunks THEN "read"
                              ELSE IF HashMatches(buf, wsig[w]) THEN "hit"
                              ELSE "compute"]
    /\ UNCHANGED <<cache_file, wsig, mainVars>>

\* The miss: CEEMDAN is computed, then open(cache_file, 'wb') truncates the
\* file in place.
ComputeAndOpen(w) ==
    /\ wpc[w] = "compute"
    /\ wpc' = [wpc EXCEPT ![w] = "write"]
    /\ cache_file' = Truncated
    /\ wpos' = [wpos EXCEPT ![w] = 0]
    /\ wbuf' = [wbuf EXCEPT ![w] = <<>>]
    /\ UNCHANGED <<wsig, mainVars>>

\* pickle.dump writes the next chunk of the worker's entry at its own offset;
\* after the last one the computed ComponentSet is returned.
WriteChunk(w) ==
    /\ wpc[w] = "write"
    /\ cache_file' = WriteAt(cache_file, wpos[w], wsig[w])
    /\ wpos' = [wpos EXCEPT ![w] = @ + 1]
    /\ wpc' = [wpc EXCEPT ![w] = IF wpos[w] + 1 = EntryChunks THEN "miss" ELSE "write"]
    /\ UNCHANGED <<wsig, wbuf, mainVars>>

\* The call returns: the cached ComponentSet after a hit, the computed one
\* after a miss.
ReturnImfs(w) ==
    /\ wpc[w] \in {"hit", "miss"}
    /\ wpc' = [wpc EXCEPT ![w] = "idle"]
    /\ wsig' = [wsig EXCEPT ![w] = 0]
    /\ wpos' = [wpos EXCEPT ![w] = 0]
    /\ wbuf' = [wbuf EXCEPT ![w] = <<>>]
    /\ UNCHANGED <<cache_file, mainVars>>

NextCacheFile ==
    \/ \E w \in Workers, k \in CacheKeys : CallDecompose(w, k)
    \/ \E w \in Workers : CheckExists(w)
    \/ \E w \in Workers : ReadChunk(w)
    \/ \E w \in Workers : ComputeAndOpen(w)
    \/ \E w \in Workers : WriteChunk(w)
    \/ \E w \in Workers : ReturnImfs(w)

SpecCacheFile == Init /\ [][NextCacheFile]_vars

\* ------------------------------------------------------------- claims
Max(a, b) == IF a > b THEN a ELSE b

Completed == pc = "done"

\* The loop has started (the thresholds are set) and the run has not failed.
Classifying == pc \in {"segments", "loop_exit", "done"}

\* L div 60 - 3 for the run's signal
AvailableSegments == df.len \div 60 - 3

MinutesContiguous == \A i \in 1 .. Len(results) : results[i].minute = i

\* The two flags of a record, from the record's own fields and the thresholds.
IbiFlagOf(r) == GT(r.ibi_lf_hf_ratio, base.ibi_baseline)
SclFlagOf(r) == r.scl_lf_power > base.scl_baseline

\* C1 as stated, for the requests with a positive minute count R: a
\* completed run returns min(R, L div 60 - 3) records, with minute fields
\* 1, 2, ..., and no record's segment ends past the signal.
C1_CountIsMin ==
    (Completed /\ request.minutes >= 1) =>
        /\ Len(results) = Min(request.minutes, AvailableSegments)
        /\ MinutesContiguous
        /\ \A i \in 1 .. Len(results) : results[i].end <= df.len

\* C1 amended: a completed run returns max(0, min(R, L div 60 - 3)) records
\* (none when the signal is shorter than the baseline or R is not positive),
\* with minute fields 1, 2, ..., as many as the response's total_minutes, and
\* no record's segment ends past the signal.
C1_CountIsClampedMin ==
    Completed =>
        /\ Len(results) = Max(0, Min(request.minutes, AvailableSegments))
        /\ MinutesContiguous
        /\ response.total_minutes = Len(results)
        /\ Len(response.oxygen_levels) = Len(results)
        /\ \A i \in 1 .. Len(results) : results[i].end <= df.len

\* A run whose signal holds fewer segments than were requested has
\* completed with as many records as the signal holds.
C1_Witness ==
    /\ Completed
    /\ request.minutes = 2
    /\ AvailableSegments = 1
    /\ Len(results) = 1
    /\ results[1].minute = 1

\* C2: every record's label is decided by its ibi ratio, its eda power and
\* the two thresholds alone: both flags give High Stress / 2, exactly one
\* gives Mild Stress / 1, neither gives No Stress / 0.
C2_LabelIsFunctionOfFlags ==
    Classifying =>
        \A i \in 1 .. Len(results) :
            LET r == results[i]
                both == IbiFlagOf(r) /\ SclFlagOf(r)
                one == IbiFlagOf(r) # SclFlagOf(r)
            IN  /\ both => r.numeric_label = 2 /\ r.stress_level = "High Stress"
                /\ one => r.numeric_label = 1 /\ r.stress_level = "Mild Stress"
                /\ (~both /\ ~one) =>
                       r.numeric_label = 0 /\ r.stress_level = "No Stress"

\* A completed run with a record of each rule that has one flag only, the
\* ibi flag in one record and the eda flag in another.
C2_Witness ==
    /\ Completed
    /\ \E i, j \in 1 .. Len(results) :
          /\ IbiFlagOf(results[i]) /\ ~SclFlagOf(results[i])
          /\ ~IbiFlagOf(results[j]) /\ SclFlagOf(results[j])
          /\ results[i].numeric_label = 1
          /\ results[j].numeric_label = 1

\* C3: every record's oxygen proxy (in hundredths) lies in the range of its
\* label, and every entry of oxygen_levels in [94, 100].
C3_OxygenWithinLabelRange ==
    /\ \A i \in 1 .. Len(results) :
          LET r == results[i]
          IN  /\ r.numeric_label = 2 =>
                     r.oxygen_level >= 9400 /\ r.oxygen_level <= 9600
              /\ r.numeric_label = 1 =>
                     r.oxygen_level >= 9600 /\ r.oxygen_level <= 9800
              /\ r.numeric_label = 0 =>
                     r.oxygen_level >= 9800 /\ r.oxygen_level <= 10000
    /\ \A i \in 1 .. Len(response.oxygen_levels) :
          /\ response.oxygen_levels[i] >= 9400
          /\ response.oxygen_levels[i] <= 10000
          /\ response.oxygen_levels[i] = results[i].oxygen_level

\* A response whose two records carry different labels and draws strictly
\* inside their ranges.
C3_Witness ==
    /\ Completed
    /\ Len(response.oxygen_levels) = 2
    /\ results[1].numeric_label = 2
    /\ results[2].numeric_label = 0
    /\ results[1].oxygen_level > 9400
    /\ results[2].oxygen_level > 9800

\* C4: with a zero baseline high-frequency IBI power the threshold is
\* not-a-number, no record is High Stress, every label is the eda flag's
\* alone, and the run does not fail.
C4_NanThresholdSuppressesIbiFlag ==
    (base.set /\ base.ibi_hf_base = 0) =>
        /\ IsNaN(base.ibi_baseline)
        /\ pc # "failed"
        /\ \A i \in 1 .. Len(results) :
              LET r == results[i]
              IN  /\ r.numeric_label # 2
                  /\ r.numeric_label = IF SclFlagOf(r) THEN 1 ELSE 0

\* A completed run with a not-a-number threshold, a record with a positive
\* ratio and no eda flag, and a record with the eda flag.
C4_Witness ==
    /\ Completed
    /\ base.ibi_hf_base = 0
    /\ \E i, j \in 1 .. Len(results) :
          /\ results[i].ibi_lf_hf_ratio[1] > 0
          /\ results[i].numeric_label = 0
          /\ results[j].numeric_label = 1

C6_CacheReturnsOwnComponents ==
    /\ ibi_imfs # NoImfs => ibi_imfs = Ceemdan(df)
    /\ scl_imfs # NoImfs => scl_imfs = Ceemdan(df)

\* C7: a worker that takes a cached entry as valid has read the chunks of
\* one complete entry, that of its own signal; no chunk of it comes from
\* another entry that was being written over the one it started to read.
C7_NoTornEntryAccepted ==
    \A w \in Workers :
        wpc[w] = "hit" =>
            \A i \in 1 .. EntryChunks : wbuf[w][i] = wsig[w]

\* C8: every record's sample range starts at or after sample 180 and ends
\* within the signal, the ranges of distinct records do not overlap, and
\* the thresholds come from samples [0, 180) only.
C8_SegmentsExcludeBaseline ==
    Classifying =>
        /\ base.from = 0
        /\ base.to <= 180
        /\ df.len >= 180 => base.to = 180
        /\ \A i \in 1 .. Len(results) :
              /\ results[i].start >= 180
              /\ results[i].start >= base.to
              /\ results[i].end = results[i].start + 60
              /\ results[i].end <= df.len
        /\ \A i, j \in 1 .. Len(results) :
              i < j => results[i].end <= results[j].start

\* A completed run with two records, the first on samples [180, 240).
C8_Witness ==
    /\ Completed
    /\ Len(results) = 2
    /\ results[1].start = 180
    /\ results[2].start = 240
    /\ base.to = 180

\* C9: a segment with zero high-frequency IBI power is recorded with ratio
\* 0.0, its ibi flag is false (as 0 > threshold is for every threshold the
\* calibration yields), so its label is the eda flag's; no record's ratio is
\* not-a-number.
C9_ZeroHfSegmentRatioIsZero ==
    /\ \A i \in 1 .. Len(results) : ~IsNaN(results[i].ibi_lf_hf_ratio)
    /\ base.set => ~GT(Zero, base.ibi_baseline)
    /\ (pc = "segments" /\ m > 0 /\ last.hf = 0) =>
          /\ results[m].ibi_lf_hf_ratio = Zero
          /\ ~IbiFlagOf(results[m])
          /\ results[m].numeric_label = IF last.scl > base.scl_baseline THEN 1 ELSE 0

\* A segment with a positive low-frequency and a zero high-frequency power
\* has been classified against a threshold of 0.
C9_Witness ==
    /\ pc = "segments"
    /\ m > 0
    /\ last.hf = 0
    /\ last.lf > 0
    /\ base.ibi_baseline = Zero

\* The range of a numeric label
LoOf(label) == 98 - 2 * label

\* C10 as stated: a run seeds the generator exactly once.
C10_SeededExactlyOnce == Completed => seeds = 1

\* C10 amended: a run reseeds the generator one to four times (in the
\* fallback generator, in each decomposition that misses the cache, and
\* before the loop); the last reseeding is the one before the first segment,
\* the loop takes one draw per record in increasing index order, so the
\* oxygen sequence is a function of the seed and the labels alone.
C10_OxygenIsFunctionOfSeedAndLabels ==
    /\ Completed => seeds \in 1 .. 4
    /\ Classifying =>
          /\ py_random = [seed |-> 42, pos |-> Len(results)]
          /\ pc = "segments" => m = Len(results)
          /\ \A i \in 1 .. Len(results) :
                /\ results[i].minute = i
                /\ results[i].oxygen_level =
                       Uniform(LoOf(results[i].numeric_label),
                               LoOf(results[i].numeric_label) + 2,
                               RandomAt(42, i - 1))

\* A run that found both ComponentSets in the cache, so that it reseeded
\* only before the loop, has completed with two records.
C10_Witness ==
    /\ Completed
    /\ seeds = 1
    /\ Len(results) = 2

====
